---- MODULE Spec2Model ----
(***************************************************************************)
(* Model of the record store of aiaiai-copilot/misc: the Express routes    *)
(* (packages/backend/src/routes/api.ts), PostgresRecordRepository, the     *)
(* row mappers and the records table with its constraints.                 *)
(*                                                                         *)
(* A content string is modelled as the sequence of its whitespace-split    *)
(* tokens.  A tag UUID is modelled as the rank of its string in ascending  *)
(* string order, which is all that Array.prototype.sort() and PostgreSQL   *)
(* array equality observe of it.                                           *)
(***************************************************************************)
EXTENDS Integers, Sequences, FiniteSets, TLC

\* ------------------------------------------------------------------ bounds
NumReq == 2
MaxId == 3
MaxClock == 1
MaxFaults == 1
MaxBatch == 2
\* Longest tag array of a stored record.
MaxTags == 3
\* Largest limit and offset of a list call.
MaxLimit == 2
\* Pools created over a run.
MaxPools == 6

\* ------------------------------------------------------- program constants
PoolMax == 20
\* CACHE_TTL of ApiTagRepository (5000 ms), in ticks of the model's clock.
CacheTtl == 1
\* The default limit of GET /records.
PageLimit == 100
NoId == 0
\* An option the caller left undefined.
NoOpt == 0 - 1

\* --------------------------------------------------------------- the inputs
\* Content strings the callers send, as token sequences.
Contents == { <<"a">>, <<"a", "b">>, <<"b", "a">> }
\* The same, with the three-token permutations of the uniqueness scenario.
PermContents == Contents \cup { <<"a", "b", "c">>, <<"c", "a", "b">> }

Slots == 1..NumReq

\* ------------------------------------------------------------ pure helpers
\* String.prototype.toLowerCase on a token.  "a-acute" and "A-acute" stand
\* for the one-letter tokens U+00E1 and U+00C1.
ToLower(t) ==
  CASE t = "A" -> "a"
    [] t = "B" -> "b"
    [] t = "C" -> "c"
    [] t = "A-acute" -> "a-acute"
    [] t = " A " -> " a "
    [] t = " B" -> " b"
    [] OTHER -> t

\* String.prototype.trim on a token.
Trim(t) ==
  CASE t = " a " -> "a"
    [] t = " A " -> "A"
    [] t = " b" -> "b"
    [] t = " B" -> "B"
    [] OTHER -> t

\* uuidv5(text, TAG_NAMESPACE): the rank, in ascending string order, of
\*   uuidv5("a") = 4f3f2898-69e3-5a0d-820a-c4e87987dbce
\*   uuidv5("b") = 3f10dbe8-4cbd-5e31-9b1f-af0cb9dda9cf
\*   uuidv5("c") = b72f1bcd-e229-57e2-bb24-d01077785f16
\*   uuidv5(U+00E1) = 5c0137da-3778-5517-b552-c9d7813b5997
uuidv5(text) ==
  CASE text = "b" -> 1
    [] text = "a" -> 2
    [] text = "a-acute" -> 3
    [] text = "c" -> 4
    [] OTHER -> 5

\* const normalized = tagText.toLowerCase().trim()
generateTagUuid(tagText) == uuidv5(Trim(ToLower(tagText)))

\* tagId.toString().toLowerCase(): the lower-case text of a tag UUID.
UuidString(k) ==
  CASE k = 1 -> "3f10dbe8-4cbd-5e31-9b1f-af0cb9dda9cf"
    [] k = 2 -> "4f3f2898-69e3-5a0d-820a-c4e87987dbce"
    [] k = 3 -> "5c0137da-3778-5517-b552-c9d7813b5997"
    [] k = 4 -> "b72f1bcd-e229-57e2-bb24-d01077785f16"
    [] OTHER -> "ffffffff-ffff-5fff-bfff-ffffffffffff"
UuidToLower(u) == UuidString(u)

\* new TagId(text): the tag identifier a UUID text names.
TagIdOf(t) ==
  CASE t = "3f10dbe8-4cbd-5e31-9b1f-af0cb9dda9cf" -> 1
    [] t = "4f3f2898-69e3-5a0d-820a-c4e87987dbce" -> 2
    [] t = "5c0137da-3778-5517-b552-c9d7813b5997" -> 3
    [] t = "b72f1bcd-e229-57e2-bb24-d01077785f16" -> 4
    [] OTHER -> 5

\* RecordContent.extractTokens: whitespace split, input order kept.
extractTokens(content) == content

\* new Set(tokens.map(token => new TagId(generateTagUuid(token)))): a JS Set
\* iterates in insertion order, so it is a sequence here.
TagIdsOf(content) ==
  [i \in 1..Len(extractTokens(content)) |-> generateTagUuid(extractTokens(content)[i])]

Range(s) == { s[i] : i \in 1..Len(s) }

\* Array.prototype.sort() of the UUID strings (ascending).
RECURSIVE SortUuids(_)
SortUuids(s) ==
  IF Len(s) = 0 THEN << >>
  ELSE LET m == CHOOSE x \in Range(s) : \A y \in Range(s) : x <= y
           i == CHOOSE j \in 1..Len(s) : s[j] = m
           rest == [j \in 1..(Len(s) - 1) |-> IF j < i THEN s[j] ELSE s[j + 1]]
       IN <<m>> \o SortUuids(rest)

\* Record.create / new Record(...)
\* Mutant: a record built with its two timestamps exchanged.
MkRecord_SwapTimes(id, content, tagIds, createdAt, updatedAt) ==
  [id |-> id, content |-> content, tagIds |-> tagIds,
   createdAt |-> updatedAt, updatedAt |-> createdAt]

MkRecord(id, content, tagIds, createdAt, updatedAt) ==
  [id |-> id, content |-> content, tagIds |-> tagIds,
   createdAt |-> createdAt, updatedAt |-> updatedAt]

\* Mutant: a row whose tags array lacks the record's last tag.
toDatabaseRow_DropLastTag(record) ==
  [id |-> record.id,
   content |-> record.content,
   tags |-> [i \in 1..(Len(record.tagIds) - 1) |-> UuidString(record.tagIds[i])],
   normalized_tags |-> [i \in 1..Len(record.tagIds) |-> UuidToLower(record.tagIds[i])],
   created_at |-> record.createdAt,
   updated_at |-> record.updatedAt]

toDatabaseRow(record) ==
  [id |-> record.id,
   content |-> record.content,
   tags |-> [i \in 1..Len(record.tagIds) |-> UuidString(record.tagIds[i])],
   normalized_tags |-> [i \in 1..Len(record.tagIds) |-> UuidToLower(record.tagIds[i])],
   created_at |-> record.createdAt,
   updated_at |-> record.updatedAt]

fromDatabaseRow(row) ==
  MkRecord(row.id, row.content, [i \in 1..Len(row.tags) |-> TagIdOf(row.tags[i])],
           row.created_at, row.updated_at)

\* ------------------------------------------------------------ error mapping
\* PostgresRecordRepository.handleError: pg error code -> DomainError code.
\* "NOCODE" stands for an error object that carries no code property.
handleError(pgCode) ==
  CASE pgCode = "23505" -> "DUPLICATE_RECORD"
    [] pgCode = "23503" -> "CONSTRAINT_VIOLATION"
    [] pgCode \in {"ECONNREFUSED", "ENOTFOUND"} -> "CONNECTION_ERROR"
    [] OTHER -> "DATABASE_ERROR"

\* errorHandler.ts: ERROR_CODE_TO_STATUS[error.code] || 500
getStatusCode(code) ==
  CASE code \in {"RECORD_NOT_FOUND", "TAG_NOT_FOUND"} -> 404
    [] code \in {"INVALID_RECORD_CONTENT", "INVALID_TAG", "DUPLICATE_RECORD",
                 "TAG_LIMIT_EXCEEDED", "VALIDATION_ERROR"} -> 400
    [] OTHER -> 500

\* A route that throws a DomainError: asyncHandler passes it to errorHandler.
Thrown(code) == [status |-> getStatusCode(code), code |-> code]
\* A route that answers directly with res.status(n).
Direct(n) == [status |-> n, code |-> "NONE"]
NoRes == [status |-> 0, code |-> "NONE"]

\* ApiClient.handleErrorResponse: a response that is not ok becomes the
\* ApiError code `HTTP_${response.status}`.
handleErrorResponse(status) == "HTTP_" \o ToString(status)

\* ApiRecordRepository.handleApiError: ApiError code -> DomainError code.
handleApiError(code) ==
  CASE code = "HTTP_404" -> "RECORD_NOT_FOUND"
    [] code = "HTTP_409" -> "DUPLICATE_RECORD"
    [] code = "NETWORK_ERROR" -> "CONNECTION_ERROR"
    [] code = "TIMEOUT" -> "TIMEOUT_ERROR"
    [] OTHER -> "API_ERROR"

\* What ApiRecordRepository.save / update / delete report for a backend
\* answer that is not ok.
ApiFailure(res) == handleApiError(handleErrorResponse(res.status))

\* Errors a query can meet on the way to or from the server.
FaultCodes == {"ECONNREFUSED", "NOCODE"}

\* ---------------------------------------------------------------- the state
VARIABLES
  db,       \* committed rows of table records
  nextId,   \* next fresh UUID of RecordId.generate()
  now,      \* the wall clock read by new Date()
  faults,   \* number of injected storage faults so far
  req,      \* the HTTP requests in flight, one per slot
  batch,    \* the saveBatch call in flight
  poolOut,  \* clients checked out of the pool by pool.connect()
  tagRepo,  \* the ApiTagRepository instance: its cache and its last answer
  pool,     \* the module variable pool of services/database.ts
  apiBatch  \* the saveBatch call of ApiRecordRepository in flight

vars == <<db, nextId, now, faults, req, batch, poolOut, tagRepo, pool, apiBatch>>

NoRecord == MkRecord(NoId, << >>, << >>, 0, 0)

IdleReq ==
  [op |-> "idle", pc |-> "idle", content |-> << >>, target |-> NoId,
   tagIds |-> << >>, existing |-> NoRecord, record |-> NoRecord,
   res |-> NoRes, tries |-> 0,
   made |-> {}, hits |-> {}, total |-> 0, overlap |-> {}, cause |-> "NONE",
   stats |-> << >>, page |-> << >>,
   limit |-> NoOpt, offset |-> NoOpt, hasMore |-> FALSE, snap |-> {},
   impl |-> "NONE"]

IdleBatch ==
  [pc |-> "idle", records |-> << >>, i |-> 0, pending |-> {}, fresh |-> {},
   err |-> "NONE", res |-> "NONE", failedAt |-> "NONE", acquired |-> 0,
   released |-> 0, allStored |-> FALSE]

\* new ApiTagRepository(apiClient): empty caches, lastCacheUpdate = 0, which
\* lies more than CACHE_TTL before any Date.now(); loaded tells that apart
\* from a refresh at time 0 of the model's clock.
\* calls holds, per caller, a call waiting for apiClient.getTagStatistics()
\* and the Date.now() it read before.
NewTagRepo ==
  [tagCache |-> {}, usageCache |-> {}, lastCacheUpdate |-> 0, loaded |-> FALSE,
   res |-> "NONE", tags |-> {}, apiFailed |-> FALSE,
   calls |-> [k \in Slots |-> [pc |-> "idle", now |-> 0]]]

\* let pool: Pool | null = null.  ref is the Pool the variable holds (NoPool
\* for null); made counts the pools created, ended holds the pools whose
\* end() was called, closing tells that a closeDatabasePool call is waiting
\* for pool.end().
NoPool == 0
NoPoolYet == [ref |-> NoPool, made |-> 0, ended |-> {}, closing |-> FALSE]

IdleApiBatch ==
  [pc |-> "idle", records |-> << >>, i |-> 0, savedRecords |-> {}, res |-> "NONE"]

Init ==
  /\ pool = NoPoolYet
  /\ apiBatch = IdleApiBatch
  /\ db = {}
  /\ nextId = 1
  /\ now = 0
  /\ faults = 0
  /\ req = [s \in Slots |-> IdleReq]
  /\ batch = IdleBatch
  /\ poolOut = 0
  /\ tagRepo = NewTagRepo

\* ------------------------------------------------------- the records table
\* Mutant: the table without UNIQUE(normalized_tags).
UniqueViolation_PkOnly(row, rows) ==
  \E r \in rows : r.id = row.id

\* PRIMARY KEY (id) and UNIQUE(normalized_tags): PostgreSQL array equality is
\* element by element, in order.
UniqueViolation(row, rows) ==
  \E r \in rows : r.id = row.id \/ r.normalized_tags = row.normalized_tags

\* The constraint a failed INSERT names: records_pkey is checked before the
\* UNIQUE(normalized_tags) index, which CREATE TABLE builds after it.
ViolatedConstraint(row, rows) ==
  IF \E r \in rows : r.id = row.id THEN "primary_key" ELSE "tag_set_unique"

\* An INSERT or UPDATE that collides with a row another transaction has
\* written but not yet committed waits for that transaction to end.
BlockedBy(row, pendingRows) ==
  \E r \in pendingRows : r.id = row.id \/ r.normalized_tags = row.normalized_tags

\* Mutant: the query without its AND id != $2 clause.
findByTagSet_NoExclude(rows, tagIds, excludeRecordId) ==
  { r \in rows : r.tags = [i \in 1..Len(tagIds) |-> UuidString(SortUuids(tagIds)[i])] }

\* SELECT ... FROM records WHERE tags = $1 [AND id != $2]
findByTagSet(rows, tagIds, excludeRecordId) ==
  LET sorted == SortUuids(tagIds)
      tagIdStrings == [i \in 1..Len(sorted) |-> UuidString(sorted[i])]
  IN { r \in rows : /\ r.tags = tagIdStrings
                    /\ (excludeRecordId # NoId => r.id # excludeRecordId) }

\* The set of tags of a row, whatever order the array lists them in.
TagSetOf(row) == { TagIdOf(t) : t \in Range(row.tags) }

\* ------------------------------------------------------------ POST /records
\* A slot takes a new request when it is idle or its last answer is out.
Free(s) == req[s].pc \in {"idle", "done"}

\* History: a create that starts while other creates are in flight overlaps
\* them.  overlap is kept for the properties only; no action reads it.
InFlight == { t \in Slots : req[t].op = "post" /\ req[t].pc = "save" }
Arrive(s, r) ==
  [t \in Slots |->
     IF t = s THEN [r EXCEPT !.overlap = InFlight \ {s}]
     ELSE IF t \in InFlight THEN [req[t] EXCEPT !.overlap = @ \cup {s}]
     ELSE req[t]]

\* Records that requests still have to create: each needs a fresh id.
CanAllocate(n) == nextId + n <= MaxId + 1

\* api.ts 45-68: tag ids of the content, duplicate pre-check, Record.create.
\* base is the request as it stands when the handler starts.
PostCheckFrom(s, base) ==
  LET duplicates == findByTagSet(db, base.tagIds, NoId)
  IN IF duplicates # {}
     THEN /\ req' = Arrive(s, [base EXCEPT !.pc = "done", !.res = Direct(409)])
          /\ UNCHANGED nextId
     ELSE /\ CanAllocate(1)
          /\ req' = Arrive(s, [base EXCEPT !.pc = "save",
                       !.record = MkRecord(nextId, base.content, base.tagIds,
                                           now, now)])
          /\ nextId' = nextId + 1

NewPost(c) ==
  [IdleReq EXCEPT !.op = "post", !.content = c, !.tagIds = TagIdsOf(c), !.tries = 1]

PostCheck(s, c) ==
  /\ Free(s)
  /\ PostCheckFrom(s, NewPost(c))
  /\ UNCHANGED <<db, now, faults, batch, poolOut, tagRepo, pool, apiBatch>>

\* api.ts 70-77 with PostgresRecordRepository.save.
PostSave(s) ==
  /\ req[s].op = "post" /\ req[s].pc = "save"
  /\ LET row == toDatabaseRow(req[s].record)
     IN /\ ~BlockedBy(row, batch.pending)
        /\ IF UniqueViolation(row, db)
           THEN /\ req' = [req EXCEPT ![s].pc = "done",
                             ![s].res = Thrown(handleError("23505")),
                             ![s].cause = ViolatedConstraint(row, db)]
                /\ UNCHANGED db
           ELSE /\ db' = db \cup {row}
                /\ req' = [req EXCEPT ![s].pc = "done", ![s].res = Direct(201),
                             ![s].made = @ \cup {row.id}]
  /\ UNCHANGED <<nextId, now, faults, batch, poolOut, tagRepo, pool, apiBatch>>

\* The first query of a create fails before it reaches the server.
PostCheckFault(s, c, f) ==
  /\ Free(s)
  /\ faults < MaxFaults
  /\ faults' = faults + 1
  /\ req' = Arrive(s, [NewPost(c) EXCEPT !.pc = "done",
                                          !.res = Thrown(handleError(f))])
  /\ UNCHANGED <<db, nextId, now, batch, poolOut, tagRepo, pool, apiBatch>>

\* A later query of a request fails before it reaches the server.
ReqFault(s, f) ==
  /\ req[s].pc \in {"save", "check", "update", "select"}
  /\ faults < MaxFaults
  /\ faults' = faults + 1
  /\ req' = [req EXCEPT ![s].pc = "done", ![s].res = Thrown(handleError(f))]
  /\ UNCHANGED <<db, nextId, now, batch, poolOut, tagRepo, pool, apiBatch>>

\* The ways the store can fail a query of a request in flight, and the error
\* codes the driver attaches to each: the connect timeout of an exhausted or
\* unreachable pool (connectionTimeoutMillis) carries no code or ETIMEDOUT.
FailureKinds == {"unreachable", "host_not_found", "connect_timeout", "other"}
PgErrorCodes(k) ==
  CASE k = "unreachable" -> {"ECONNREFUSED"}
    [] k = "host_not_found" -> {"ENOTFOUND"}
    [] k = "connect_timeout" -> {"NOCODE", "ETIMEDOUT"}
    [] OTHER -> {"NOCODE", "57P01"}

\* pool.query of a request in flight rejects with a failure of kind k; the
\* repository method's catch block hands the error to handleError.
StorageFailure(s, k, pgCode) ==
  /\ req[s].pc \in {"save", "check", "update", "select"}
  /\ pgCode \in PgErrorCodes(k)
  /\ faults < MaxFaults
  /\ faults' = faults + 1
  /\ req' = [req EXCEPT ![s].pc = "done", ![s].res = Thrown(handleError(pgCode)),
                        ![s].cause = k]
  /\ UNCHANGED <<db, nextId, now, batch, poolOut, tagRepo, pool, apiBatch>>

\* The INSERT is applied by the server but the connection drops before the
\* answer arrives: pool.query rejects although the row is stored.
PostSaveLost(s) ==
  /\ req[s].op = "post" /\ req[s].pc = "save"
  /\ faults < MaxFaults
  /\ LET row == toDatabaseRow(req[s].record)
     IN /\ ~BlockedBy(row, batch.pending)
        /\ ~UniqueViolation(row, db)
        /\ db' = db \cup {row}
        /\ req' = [req EXCEPT ![s].pc = "done",
                     ![s].res = Thrown(handleError("NOCODE")),
                     ![s].made = @ \cup {row.id}]
  /\ faults' = faults + 1
  /\ UNCHANGED <<nextId, now, batch, poolOut, tagRepo, pool, apiBatch>>

\* The caller sends a create again after it failed with a storage error.
Retry(s) ==
  /\ req[s].op = "post" /\ req[s].pc = "done" /\ req[s].res.status = 500
  /\ PostCheckFrom(s, [req[s] EXCEPT !.res = NoRes, !.record = NoRecord,
                                     !.tries = @ + 1])
  /\ UNCHANGED <<db, now, faults, batch, poolOut, tagRepo, pool, apiBatch>>

Tick ==
  /\ now < MaxClock
  /\ now' = now + 1
  /\ UNCHANGED <<db, nextId, faults, req, batch, poolOut, tagRepo, pool, apiBatch>>

\* --------------------------------------------------------- PUT /records/:id
NewPut(id, c) ==
  [IdleReq EXCEPT !.op = "put", !.content = c, !.target = id,
                  !.tagIds = TagIdsOf(c), !.tries = 1]

\* api.ts 81-98 with PostgresRecordRepository.findById.
PutFind(s, id, c) ==
  /\ Free(s)
  /\ LET rows == { r \in db : r.id = id }
     IN IF rows = {}
        THEN req' = [req EXCEPT ![s] = [NewPut(id, c) EXCEPT !.pc = "done",
                                          !.res = Direct(404)]]
        ELSE req' = [req EXCEPT ![s] = [NewPut(id, c) EXCEPT !.pc = "check",
                       !.existing = fromDatabaseRow(CHOOSE r \in rows : TRUE)]]
  /\ UNCHANGED <<db, nextId, now, faults, batch, poolOut, tagRepo, pool, apiBatch>>

\* api.ts 107-125: duplicate pre-check excluding the record itself, then the
\* replacement record with the existing id and createdAt.
PutCheck(s) ==
  /\ req[s].op = "put" /\ req[s].pc = "check"
  /\ LET duplicates == findByTagSet(db, req[s].tagIds, req[s].target)
         existingRecord == req[s].existing
     IN IF duplicates # {}
        THEN req' = [req EXCEPT ![s].pc = "done", ![s].res = Direct(409)]
        ELSE req' = [req EXCEPT ![s].pc = "update",
                       ![s].record = MkRecord(existingRecord.id, req[s].content,
                                              req[s].tagIds,
                                              existingRecord.createdAt, now)]
  /\ UNCHANGED <<db, nextId, now, faults, batch, poolOut, tagRepo, pool, apiBatch>>

\* Mutant: an UPDATE that also sets created_at to the time of the update.
UpdatedRow_Recreate(old, row) ==
  [old EXCEPT !.content = row.content, !.tags = row.tags,
              !.normalized_tags = row.normalized_tags,
              !.created_at = row.updated_at,
              !.updated_at = row.updated_at]

\* UPDATE records SET content, tags, normalized_tags, updated_at WHERE id = $1
UpdatedRow(old, row) ==
  [old EXCEPT !.content = row.content, !.tags = row.tags,
              !.normalized_tags = row.normalized_tags,
              !.updated_at = row.updated_at]

\* api.ts 127-134 with PostgresRecordRepository.update.
PutUpdate(s) ==
  /\ req[s].op = "put" /\ req[s].pc = "update"
  /\ LET row == toDatabaseRow(req[s].record)
         olds == { r \in db : r.id = row.id }
         others == db \ olds
         clash == { r \in others : r.normalized_tags = row.normalized_tags }
     IN IF olds = {}
        THEN /\ req' = [req EXCEPT ![s].pc = "done",
                          ![s].res = Thrown("RECORD_NOT_FOUND")]
             /\ UNCHANGED db
        ELSE /\ ~(\E r \in batch.pending : r.normalized_tags = row.normalized_tags)
             /\ IF clash # {}
                THEN /\ req' = [req EXCEPT ![s].pc = "done",
                                  ![s].res = Thrown(handleError("23505"))]
                     /\ UNCHANGED db
                ELSE /\ db' = others \cup { UpdatedRow(r, row) : r \in olds }
                     /\ req' = [req EXCEPT ![s].pc = "done",
                                           ![s].res = Direct(200)]
  /\ UNCHANGED <<nextId, now, faults, batch, poolOut, tagRepo, pool, apiBatch>>

\* ------------------------------------------------------ DELETE /records/:id
\* A delete that does not look at rowCount and answers 204 for any id.
DeleteRun_NoRowCount(s, id) ==
  /\ Free(s)
  /\ db' = { r \in db : r.id # id }
  /\ req' = [req EXCEPT ![s] = [IdleReq EXCEPT !.op = "delete", !.target = id,
               !.tries = 1, !.pc = "done", !.res = Direct(204)]]
  /\ UNCHANGED <<nextId, now, faults, batch, poolOut, tagRepo, pool, apiBatch>>

\* Mutant: a delete that answers 204 and leaves the row in the table.
DeleteRun_KeepRow(s, id) ==
  /\ Free(s)
  /\ req' = [req EXCEPT ![s] = [IdleReq EXCEPT !.op = "delete", !.target = id,
               !.tries = 1, !.pc = "done",
               !.res = IF \E r \in db : r.id = id
                       THEN Direct(204) ELSE Thrown("RECORD_NOT_FOUND")]]
  /\ UNCHANGED <<db, nextId, now, faults, batch, poolOut, tagRepo, pool, apiBatch>>

\* api.ts 138-151 with PostgresRecordRepository.delete.
DeleteRun(s, id) ==
  /\ Free(s)
  /\ LET olds == { r \in db : r.id = id }
         base == [IdleReq EXCEPT !.op = "delete", !.target = id, !.tries = 1,
                                 !.pc = "done"]
     IN IF olds = {}
        THEN /\ req' = [req EXCEPT ![s] = [base EXCEPT
                          !.res = Thrown("RECORD_NOT_FOUND")]]
             /\ UNCHANGED db
        ELSE /\ db' = db \ olds
             /\ req' = [req EXCEPT ![s] = [base EXCEPT !.res = Direct(204)]]
  /\ UNCHANGED <<nextId, now, faults, batch, poolOut, tagRepo, pool, apiBatch>>

\* ------------------------------------------------------------- GET /records
\* Query strings the callers send, as token sequences; the last one is the
\* UUID of tag "a" typed as a search word.
Queries ==
  { << >>, <<"a">>, <<"a", "b">>, <<"a", "c">>,
    <<"4f3f2898-69e3-5a0d-820a-c4e87987dbce">> }

\* SearchQuery.getTokens: the query's tokens in normalized form.
getTokens(q) == [i \in 1..Len(q) |-> ToLower(q[i])]

\* WHERE normalized_tags @> $1, with $1 = tokens.map(t => t.toLowerCase());
\* no WHERE clause at all when search delegates to findAll.
SearchRows(rows, tokens) ==
  LET normalizedTokens == [i \in 1..Len(tokens) |-> ToLower(tokens[i])]
  IN IF Len(tokens) = 0
     THEN rows
     ELSE { r \in rows : Range(normalizedTokens) \subseteq Range(r.normalized_tags) }

\* api.ts 18-31 and the SELECT COUNT(*) of search / findAll.
GetCount(s, q) ==
  /\ Free(s)
  /\ req' = [req EXCEPT ![s] = [IdleReq EXCEPT !.op = "get", !.pc = "select",
               !.content = q, !.tries = 1,
               !.total = Cardinality(SearchRows(db, getTokens(q)))]]
  /\ UNCHANGED <<db, nextId, now, faults, batch, poolOut, tagRepo, pool, apiBatch>>

\* Mutant: ORDER BY created_at ASC.
CreatedDesc_Asc(x, y) == x.created_at <= y.created_at

\* ORDER BY created_at DESC, the default sortBy and sortOrder: x may stand
\* before y.  Rows with equal created_at come in any order.
CreatedDesc(x, y) == x.created_at >= y.created_at

\* The orders in which the SELECT can return the rows.
OrderedRows(rows) ==
  { seq \in [1..Cardinality(rows) -> rows] :
      /\ \A i, j \in 1..Cardinality(rows) : i # j => seq[i] # seq[j]
      /\ \A i, j \in 1..Cardinality(rows) : i < j => CreatedDesc(seq[i], seq[j]) }

\* LIMIT $2 OFFSET $3 with the route's offset of 0.
Limit(seq, limit) == SubSeq(seq, 1, IF Len(seq) < limit THEN Len(seq) ELSE limit)

\* The page SELECT of search / findAll and the route's answer (api.ts 33-41).
GetSelect(s) ==
  /\ req[s].op = "get" /\ req[s].pc = "select"
  /\ \E seq \in OrderedRows(SearchRows(db, getTokens(req[s].content))) :
       LET records == Limit(seq, PageLimit)
       IN req' = [req EXCEPT ![s].pc = "done", ![s].res = Direct(200),
                    ![s].hits = { records[i].id : i \in 1..Len(records) },
                    ![s].page = [i \in 1..Len(records) |-> records[i].id]]
  /\ UNCHANGED <<db, nextId, now, faults, batch, poolOut, tagRepo, pool, apiBatch>>

\* ------------------------------------------ findAll with limit and offset
\* The windows callers ask for; either option may be left out.
Limits == {NoOpt} \cup (1..MaxLimit)
Offsets == {NoOpt} \cup (0..MaxLimit)

\* OFFSET $o LIMIT $l applied to the ordered rows; a clause that is left out
\* cuts nothing.
Window(seq, limit, offset) ==
  LET from == IF offset = NoOpt THEN 1 ELSE offset + 1
      upto == IF limit = NoOpt \/ from + limit - 1 > Len(seq)
              THEN Len(seq) ELSE from + limit - 1
  IN SubSeq(seq, from, upto)

\* hasMore = offset !== undefined && limit !== undefined
\*             ? offset + limit < total : false
HasMore(limit, offset, total) ==
  IF offset # NoOpt /\ limit # NoOpt THEN offset + limit < total ELSE FALSE

\* findAll(options) up to its SELECT COUNT(*); snap keeps the table the count
\* saw, and after the page SELECT {NoRecord} when the table changed in
\* between, for the properties only.
PageCount(s, limit, offset) ==
  /\ Free(s)
  /\ req' = [req EXCEPT ![s] = [IdleReq EXCEPT !.op = "list", !.pc = "page",
               !.tries = 1, !.limit = limit, !.offset = offset,
               !.total = Cardinality(db), !.snap = db]]
  /\ UNCHANGED <<db, nextId, now, faults, batch, poolOut, tagRepo, pool, apiBatch>>

\* The page SELECT of findAll and its result { records, total, hasMore }.
PageSelect(s) ==
  /\ req[s].op = "list" /\ req[s].pc = "page"
  /\ \E seq \in OrderedRows(db) :
       LET records == Window(seq, req[s].limit, req[s].offset)
       IN req' = [req EXCEPT ![s].pc = "done", ![s].res = Direct(200),
                    ![s].hits = { records[i].id : i \in 1..Len(records) },
                    ![s].page = [i \in 1..Len(records) |-> records[i].id],
                    ![s].hasMore = HasMore(req[s].limit, req[s].offset, req[s].total),
                    ![s].snap = IF req[s].snap = db THEN db ELSE {NoRecord}]
  /\ UNCHANGED <<db, nextId, now, faults, batch, poolOut, tagRepo, pool, apiBatch>>

\* ------------------------------------------------------------ findByTagIds
\* Lists of tag ids the callers hand to findByTagIds: none, "a", "a" and
\* "b", "c".
TagIdLists == { << >>, <<2>>, <<2, 1>>, <<4>> }
Impls == {"postgres", "api"}

\* PostgresRecordRepository.findByTagIds: WHERE tags && $1, with
\* $1 = tagIds.map(id => id.toString()).
OverlapRows(rows, tagIds) ==
  LET tagIdStrings == [i \in 1..Len(tagIds) |-> UuidString(tagIds[i])]
  IN { r \in rows : Range(r.tags) \cap Range(tagIdStrings) # {} }

\* ApiRecordRepository.findByTagIds: the ids' texts joined by blanks go to
\* GET /records as q; the route searches for them as query words, and lists
\* all records when q is empty.
ApiTagIdRows(rows, tagIds) ==
  LET query == [i \in 1..Len(tagIds) |-> UuidString(tagIds[i])]
  IN SearchRows(rows, getTokens(query))

TagIdRows(impl, rows, tagIds) ==
  IF impl = "postgres" THEN OverlapRows(rows, tagIds) ELSE ApiTagIdRows(rows, tagIds)

\* findByTagIds up to its count query; the PostgreSQL one returns at once
\* for an empty list.
TagIdsCount(s, impl, tagIds) ==
  /\ Free(s)
  /\ LET base == [IdleReq EXCEPT !.op = impl, !.tagIds = tagIds, !.tries = 1]
     IN IF impl = "postgres" /\ Len(tagIds) = 0
        THEN req' = [req EXCEPT ![s] = [base EXCEPT !.pc = "done", !.res = Direct(200)]]
        ELSE req' = [req EXCEPT ![s] = [base EXCEPT !.pc = "page",
                       !.total = Cardinality(TagIdRows(impl, db, tagIds))]]
  /\ UNCHANGED <<db, nextId, now, faults, batch, poolOut, tagRepo, pool, apiBatch>>

\* The page SELECT of findByTagIds; the backend applies its default limit
\* when ApiRecordRepository passes none.
TagIdsSelect(s) ==
  /\ req[s].op \in Impls /\ req[s].pc = "page"
  /\ \E seq \in OrderedRows(TagIdRows(req[s].op, db, req[s].tagIds)) :
       LET records == IF req[s].op = "api" THEN Limit(seq, PageLimit) ELSE seq
       IN req' = [req EXCEPT ![s].pc = "done", ![s].res = Direct(200),
                    ![s].hits = { records[i].id : i \in 1..Len(records) },
                    ![s].page = [i \in 1..Len(records) |-> records[i].id]]
  /\ UNCHANGED <<db, nextId, now, faults, batch, poolOut, tagRepo, pool, apiBatch>>

\* ------------------------------------------------------------------ findById
\* A RecordId whose UUID text is the UUID of tag "a": it names no record.
TagUuidRecordId == MaxId + 1
FindIds == (1..MaxId) \cup {TagUuidRecordId}

\* RecordId.toString: the UUID text of a record id.
RecordIdText(id) ==
  IF id = TagUuidRecordId THEN UuidString(2) ELSE "record-" \o ToString(id)

\* The rows findById reads.  PostgresRecordRepository: WHERE id = $1.
\* ApiRecordRepository: searchRecords(id.toString(), { limit: 1 }), which the
\* backend answers with search over the id text as the one query token.
FindByIdRows(impl, rows, id) ==
  IF impl = "postgres"
  THEN { r \in rows : r.id = id }
  ELSE SearchRows(rows, getTokens(<<RecordIdText(id)>>))

\* findById(id): Ok(null) when no row comes back, else Ok of the first row's
\* record.  hits holds the id of the record returned.
FindById(s, impl, id) ==
  /\ Free(s)
  /\ \E seq \in OrderedRows(FindByIdRows(impl, db, id)) :
       LET records == Limit(seq, 1)
           base == [IdleReq EXCEPT !.op = "find", !.impl = impl, !.target = id,
                                   !.tries = 1, !.pc = "done", !.res = Direct(200)]
       IN IF Len(records) = 0
          THEN req' = [req EXCEPT ![s] = base]
          ELSE req' = [req EXCEPT ![s] = [base EXCEPT
                         !.record = fromDatabaseRow(records[1]),
                         !.hits = { fromDatabaseRow(records[1]).id }]]
  /\ UNCHANGED <<db, nextId, now, faults, batch, poolOut, tagRepo, pool, apiBatch>>

\* ------------------------------------------------------- services/database
\* getDatabasePool(): creates the pool when the variable is null and returns
\* what the variable holds.  target keeps the pool returned.
getDatabasePool(s) ==
  /\ Free(s)
  /\ pool.ref = NoPool => pool.made < MaxPools
  /\ pool' = IF pool.ref = NoPool
             THEN [pool EXCEPT !.ref = pool.made + 1, !.made = pool.made + 1]
             ELSE pool
  /\ req' = [req EXCEPT ![s] = [IdleReq EXCEPT !.op = "pool", !.pc = "done",
               !.tries = 1, !.target = pool'.ref]]
  /\ UNCHANGED <<db, nextId, now, faults, batch, poolOut, tagRepo, apiBatch>>

\* closeDatabasePool() up to its await: nothing for a null variable, else
\* pool.end() is called and the call waits for it.  One close call at a time.
CloseStart ==
  /\ ~pool.closing
  /\ pool.ref # NoPool
  /\ pool' = [pool EXCEPT !.ended = @ \cup {pool.ref}, !.closing = TRUE]
  /\ UNCHANGED <<db, nextId, now, faults, req, batch, poolOut, tagRepo, apiBatch>>

\* closeDatabasePool() after pool.end() has resolved: pool = null.
CloseEnd ==
  /\ pool.closing
  /\ pool' = [pool EXCEPT !.ref = NoPool, !.closing = FALSE]
  /\ UNCHANGED <<db, nextId, now, faults, req, batch, poolOut, tagRepo, apiBatch>>

\* ------------------------------------------- ApiRecordRepository.saveBatch
\* The batches callers hand over: contents of the records to save.
ApiBatches ==
  { << >> } \cup { <<c>> : c \in Contents } \cup { <<c, d>> : c, d \in Contents }

\* saveBatch(records) up to its loop; an empty batch returns Ok([]).
ApiSaveBatch(records) ==
  /\ apiBatch.pc \in {"idle", "done"}
  /\ apiBatch' = IF Len(records) = 0
                 THEN [IdleApiBatch EXCEPT !.pc = "done", !.res = "OK"]
                 ELSE [IdleApiBatch EXCEPT !.pc = "save", !.records = records, !.i = 1]
  /\ UNCHANGED <<db, nextId, now, faults, req, batch, poolOut, tagRepo, pool>>

\* this.save(record): apiClient.createRecord({ content }) sends POST /records,
\* which the backend takes up in slot 1.
ApiBatchSave ==
  /\ apiBatch.pc = "save"
  /\ Free(1)
  /\ PostCheckFrom(1, NewPost(apiBatch.records[apiBatch.i]))
  /\ apiBatch' = [apiBatch EXCEPT !.pc = "await"]
  /\ UNCHANGED <<db, now, faults, batch, poolOut, tagRepo, pool>>

\* The answer to the save: Err(error) ends the batch at once, else the record
\* joins savedRecords and the loop goes on or returns Ok(savedRecords).
ApiBatchNext ==
  /\ apiBatch.pc = "await"
  /\ req[1].op = "post" /\ req[1].pc = "done"
  /\ apiBatch' =
       IF req[1].res # Direct(201)
       THEN [apiBatch EXCEPT !.pc = "done", !.res = ApiFailure(req[1].res)]
       ELSE IF apiBatch.i = Len(apiBatch.records)
       THEN [apiBatch EXCEPT !.pc = "done", !.res = "OK",
                             !.savedRecords = @ \cup {req[1].record.id}]
       ELSE [apiBatch EXCEPT !.pc = "save", !.i = @ + 1,
                             !.savedRecords = @ \cup {req[1].record.id}]
  /\ UNCHANGED <<db, nextId, now, faults, req, batch, poolOut, tagRepo, pool>>

\* ------------------------------------------- toDatabaseRow / fromDatabaseRow
\* Valid records handed to the mappers: every tag set of the inputs, the
\* empty one included, with every pair of timestamps.
MapperRecords ==
  { MkRecord(id, c, TagIdsOf(c), createdAt, updatedAt) :
      id \in 1..MaxId, c \in PermContents \cup { << >> },
      createdAt \in 0..MaxClock, updatedAt \in 0..MaxClock }

\* fromDatabaseRow(toDatabaseRow(record)) of one record, argument and result
\* kept in the slot of the caller.
RoundTripCall(s, record) ==
  /\ Free(s)
  /\ req' = [req EXCEPT ![s] = [IdleReq EXCEPT !.op = "roundtrip", !.pc = "done",
               !.record = record,
               !.existing = fromDatabaseRow(toDatabaseRow(record))]]
  /\ UNCHANGED <<db, nextId, now, faults, batch, poolOut, tagRepo, pool, apiBatch>>

\* ------------------------------------------------------- generateTagUuid
\* Tag texts handed to generateTagUuid: plain, upper-case, padded with
\* whitespace, and accented.
TagTexts == {"a", "A", " a ", " A ", "a-acute", "A-acute", "b", "B", " b", "c"}

\* One call of generateTagUuid(tagText), its argument and result kept in the
\* slot of the caller.
TagUuidCall(s, tagText) ==
  /\ Free(s)
  /\ req' = [req EXCEPT ![s] = [IdleReq EXCEPT !.op = "uuid", !.pc = "done",
               !.content = <<tagText>>, !.tagIds = <<generateTagUuid(tagText)>>]]
  /\ UNCHANGED <<db, nextId, now, faults, batch, poolOut, tagRepo, pool, apiBatch>>

\* ---------------------------------------------------------------- GET /tags
\* The place of a text value in ascending text order, for the values that
\* occur as tags: digits sort before letters, "b" before "b72f...".
TextRank(t) ==
  CASE t = "3f10dbe8-4cbd-5e31-9b1f-af0cb9dda9cf" -> 1
    [] t = "4f3f2898-69e3-5a0d-820a-c4e87987dbce" -> 2
    [] t = "5c0137da-3778-5517-b552-c9d7813b5997" -> 3
    [] t = "a" -> 4
    [] t = "b" -> 5
    [] t = "b72f1bcd-e229-57e2-bb24-d01077785f16" -> 6
    [] t = "c" -> 7
    [] OTHER -> 8

\* ORDER BY count DESC, tag ASC
StatBefore(x, y) ==
  \/ x.count > y.count
  \/ x.count = y.count /\ TextRank(x.tag) < TextRank(y.tag)

\* The entries of a set of { tag, count } in the order StatBefore gives.
SortStats(entries) ==
  IF entries = {} THEN << >>
  ELSE CHOOSE seq \in [1..Cardinality(entries) -> entries] :
         \A i, j \in 1..Cardinality(entries) : i < j => StatBefore(seq[i], seq[j])

\* PostgresRecordRepository.getTagStatistics:
\*   SELECT tag, COUNT(*) FROM records, UNNEST(normalized_tags) AS tag
\*   GROUP BY tag ORDER BY count DESC, tag ASC
getTagStatistics(rows) ==
  LET unnest == { <<r.id, i>> : r \in rows, i \in 1..MaxTags }
      cells == { c \in unnest : \E r \in rows :
                   r.id = c[1] /\ c[2] <= Len(r.normalized_tags) }
      tagOf(c) == (CHOOSE r \in rows : r.id = c[1]).normalized_tags[c[2]]
      groups == { tagOf(c) : c \in cells }
  IN SortStats({ [tag |-> t, count |-> Cardinality({ c \in cells : tagOf(c) = t })]
                 : t \in groups })

\* api.ts 154-164 with PostgresRecordRepository.getTagStatistics.
TagsRun(s) ==
  /\ Free(s)
  /\ req' = [req EXCEPT ![s] = [IdleReq EXCEPT !.op = "tags", !.pc = "done",
               !.tries = 1, !.res = Direct(200), !.stats = getTagStatistics(db)]]
  /\ UNCHANGED <<db, nextId, now, faults, batch, poolOut, tagRepo, pool, apiBatch>>

\* -------------------------------------------------------- ApiTagRepository
\* refreshCacheIfNeeded line 267: a refresh is due when lastCacheUpdate lies
\* CACHE_TTL or more before Date.now().
RefreshNeeded == ~tagRepo.loaded \/ now - tagRepo.lastCacheUpdate >= CacheTtl

\* refreshCacheIfNeeded after its await: the answer of GET /tags, read at
\* the time the answer is made, replaces the caches and lastCacheUpdate
\* becomes the time `at` read before the call; a failure changes nothing.
refreshCacheIfNeeded(apiFails, at) ==
  IF apiFails THEN tagRepo
  ELSE LET statistics == getTagStatistics(db)
       IN [tagRepo EXCEPT
             !.tagCache = { statistics[i].tag : i \in 1..Len(statistics) },
             !.usageCache = { statistics[i] : i \in 1..Len(statistics) },
             !.lastCacheUpdate = at, !.loaded = TRUE]

\* ApiTagRepository.findAll up to the await in refreshCacheIfNeeded: within
\* CACHE_TTL of lastCacheUpdate it returns Ok(the cached tags) at once, else
\* it reads Date.now() and sends GET /tags.
TagFindAll(k) ==
  /\ tagRepo.calls[k].pc = "idle"
  /\ tagRepo' = IF RefreshNeeded
                THEN [tagRepo EXCEPT !.calls[k] = [pc |-> "await", now |-> now]]
                ELSE [tagRepo EXCEPT !.res = "OK", !.tags = tagRepo.tagCache,
                                     !.apiFailed = FALSE]
  /\ UNCHANGED <<db, nextId, now, faults, req, batch, poolOut, pool, apiBatch>>

\* The rest of findAll once GET /tags has answered or failed: refresh or
\* not, then Ok(the cached tags).  apiFails says whether the call failed.
TagFindAllReturn(k, apiFails) ==
  /\ tagRepo.calls[k].pc = "await"
  /\ apiFails => faults < MaxFaults
  /\ faults' = IF apiFails THEN faults + 1 ELSE faults
  /\ LET after == refreshCacheIfNeeded(apiFails, tagRepo.calls[k].now)
     IN tagRepo' = [after EXCEPT !.res = "OK", !.tags = after.tagCache,
                                 !.apiFailed = apiFails,
                                 !.calls[k] = [pc |-> "idle", now |-> 0]]
  /\ UNCHANGED <<db, nextId, now, req, batch, poolOut, pool, apiBatch>>

\* -------------------------------------- PostgresRecordRepository.saveBatch
\* Tag sets of the records a caller hands to saveBatch.
BatchContents == { << >>, <<"a">>, <<"a", "b">> }

\* A batch element is a record just made by Record.create, or a record read
\* from the store and handed in again.
BatchElems ==
  { [kind |-> "fresh", content |-> c, row |-> toDatabaseRow(NoRecord)] : c \in BatchContents }
  \cup { [kind |-> "stored", content |-> r.content, row |-> r] : r \in db }

FreshBefore(elems, i) == Cardinality({ j \in 1..(i - 1) : elems[j].kind = "fresh" })

BatchRecords(elems) ==
  [i \in 1..Len(elems) |->
     IF elems[i].kind = "fresh"
     THEN MkRecord(nextId + FreshBefore(elems, i), elems[i].content,
                   TagIdsOf(elems[i].content), now, now)
     ELSE fromDatabaseRow(elems[i].row)]

\* saveBatch 299-301: the empty batch returns Ok([]) without a connection.
BatchFree == batch.pc \in {"idle", "done"}

BatchEmpty ==
  /\ BatchFree
  /\ batch' = [IdleBatch EXCEPT !.pc = "done", !.res = "OK", !.allStored = TRUE]
  /\ UNCHANGED <<db, nextId, now, faults, req, poolOut, tagRepo, pool, apiBatch>>

StartBatch(elems) ==
  /\ BatchFree
  /\ LET n == FreshBefore(elems, Len(elems) + 1)
     IN /\ CanAllocate(n)
        /\ nextId' = nextId + n
        /\ batch' = [IdleBatch EXCEPT !.pc = "connect",
                       !.records = BatchRecords(elems),
                       !.fresh = { nextId + k : k \in 0..(n - 1) }]
  /\ UNCHANGED <<db, now, faults, req, poolOut, tagRepo, pool, apiBatch>>

\* saveBatch 303: const client = await this.pool.connect()
BatchConnect ==
  /\ batch.pc = "connect"
  /\ poolOut < PoolMax
  /\ poolOut' = poolOut + 1
  /\ batch' = [batch EXCEPT !.pc = "begin", !.acquired = @ + 1]
  /\ UNCHANGED <<db, nextId, now, faults, req, tagRepo, pool, apiBatch>>

\* pool.connect() rejects (store unreachable, or the connect timeout of an
\* exhausted pool): line 303 is outside the try block, so saveBatch rejects.
BatchConnectFail ==
  /\ batch.pc = "connect"
  /\ faults < MaxFaults
  /\ faults' = faults + 1
  /\ batch' = [batch EXCEPT !.pc = "done", !.res = "THROWN", !.failedAt = "connect"]
  /\ UNCHANGED <<db, nextId, now, req, poolOut, tagRepo, pool, apiBatch>>

\* saveBatch 306: await client.query('BEGIN')
BatchBegin ==
  /\ batch.pc = "begin"
  /\ batch' = [batch EXCEPT !.pc = "insert", !.i = 1]
  /\ UNCHANGED <<db, nextId, now, faults, req, poolOut, tagRepo, pool, apiBatch>>

\* saveBatch 308-315: one INSERT of the loop, inside the open transaction.
BatchInsert ==
  /\ batch.pc = "insert"
  /\ LET row == toDatabaseRow(batch.records[batch.i])
     IN IF UniqueViolation(row, db \cup batch.pending)
        THEN batch' = [batch EXCEPT !.pc = "rollback", !.err = "23505",
                                    !.failedAt = "insert"]
        ELSE batch' = [batch EXCEPT !.pending = @ \cup {row}, !.i = @ + 1,
                         !.pc = IF batch.i = Len(batch.records)
                                THEN "commit" ELSE "insert"]
  /\ UNCHANGED <<db, nextId, now, faults, req, poolOut, tagRepo, pool, apiBatch>>

\* A query on the client fails before the server acts on it; control passes
\* to the catch block.
BatchFault(f) ==
  /\ batch.pc \in {"begin", "insert", "commit"}
  /\ faults < MaxFaults
  /\ faults' = faults + 1
  /\ batch' = [batch EXCEPT !.pc = "rollback", !.err = f, !.failedAt = batch.pc]
  /\ UNCHANGED <<db, nextId, now, req, poolOut, tagRepo, pool, apiBatch>>

\* saveBatch 317-318: COMMIT, return Ok(records)
BatchCommit ==
  /\ batch.pc = "commit"
  /\ db' = db \cup batch.pending
  /\ batch' = [batch EXCEPT !.pc = "release", !.res = "OK", !.pending = {},
                 !.allStored = \A i \in 1..Len(batch.records) :
                                  toDatabaseRow(batch.records[i]) \in db']
  /\ UNCHANGED <<nextId, now, faults, req, poolOut, tagRepo, pool, apiBatch>>

\* saveBatch 320-321: ROLLBACK, then handleError
BatchRollback ==
  /\ batch.pc = "rollback"
  /\ batch' = [batch EXCEPT !.pc = "release", !.pending = {},
                            !.res = handleError(batch.err)]
  /\ UNCHANGED <<db, nextId, now, faults, req, poolOut, tagRepo, pool, apiBatch>>

\* Mutant: client.release() inside the try block instead of finally, so the
\* rejected ROLLBACK skips it.
BatchRollbackFail_Leak ==
  /\ batch.pc = "rollback"
  /\ faults < MaxFaults
  /\ faults' = faults + 1
  /\ batch' = [batch EXCEPT !.pc = "done", !.pending = {}, !.res = "THROWN"]
  /\ UNCHANGED <<db, nextId, now, req, poolOut, tagRepo, pool, apiBatch>>

\* The ROLLBACK query itself rejects: the error leaves the catch block, the
\* server discards the transaction with the broken session.
BatchRollbackFail ==
  /\ batch.pc = "rollback"
  /\ faults < MaxFaults
  /\ faults' = faults + 1
  /\ batch' = [batch EXCEPT !.pc = "release", !.pending = {}, !.res = "THROWN"]
  /\ UNCHANGED <<db, nextId, now, req, poolOut, tagRepo, pool, apiBatch>>

\* saveBatch 322-324: finally { client.release() }
BatchRelease ==
  /\ batch.pc = "release"
  /\ poolOut' = poolOut - 1
  /\ batch' = [batch EXCEPT !.pc = "done", !.released = @ + 1]
  /\ UNCHANGED <<db, nextId, now, faults, req, tagRepo, pool, apiBatch>>

\* ------------------------------------------------------- the specification
PostActions(C) ==
  \/ \E s \in Slots, c \in C : PostCheck(s, c)
  \/ \E s \in Slots : PostSave(s)

PutActions ==
  \/ \E s \in Slots, id \in 1..MaxId, c \in Contents : PutFind(s, id, c)
  \/ \E s \in Slots : PutCheck(s)
  \/ \E s \in Slots : PutUpdate(s)

DeleteActions == \E s \in Slots, id \in 1..MaxId : DeleteRun(s, id)

GetActions ==
  \/ \E s \in Slots, q \in Queries : GetCount(s, q)
  \/ \E s \in Slots : GetSelect(s)

RetryActions ==
  \/ \E s \in Slots, c \in Contents, f \in FaultCodes : PostCheckFault(s, c, f)
  \/ \E s \in Slots, f \in FaultCodes : ReqFault(s, f)
  \/ \E s \in Slots : PostSaveLost(s)
  \/ \E s \in Slots : Retry(s)

BatchActions ==
  \/ BatchEmpty
  \/ \E n \in 1..MaxBatch : \E elems \in [1..n -> BatchElems] : StartBatch(elems)
  \/ BatchConnect
  \/ BatchBegin
  \/ BatchInsert
  \/ BatchCommit
  \/ BatchRollback
  \/ BatchRelease

BatchFaultActions ==
  \/ BatchConnectFail
  \/ \E f \in FaultCodes : BatchFault(f)
  \/ BatchRollbackFail

\* Creates, updates and deletes of concurrent requests, interleaved at every
\* await of the route handlers.
Next == PostActions(Contents) \/ PutActions \/ DeleteActions
Spec == Init /\ [][Next]_vars

\* Concurrent creates alone, over the longer contents, with the clock running.
NextCreate == PostActions(PermContents) \/ Tick
SpecCreate == Init /\ [][NextCreate]_vars

\* Creates whose queries can fail, and the caller's retries.
NextRetry == PostActions(Contents) \/ RetryActions
SpecRetry == Init /\ [][NextRetry]_vars

\* Creates, deletes and searches.
NextSearch == PostActions(Contents) \/ DeleteActions \/ GetActions
SpecSearch == Init /\ [][NextSearch]_vars

\* Creates whose INSERT the store can fail in each of the ways it has.
FailureActions ==
  \E s \in Slots, k \in FailureKinds :
    \E pgCode \in PgErrorCodes(k) : StorageFailure(s, k, pgCode)
NextFailure == PostActions(Contents) \/ FailureActions
SpecFailure == Init /\ [][NextFailure]_vars

\* Creates and deletes with the clock running, the tag statistics of the
\* backend, and an ApiTagRepository in front of a backend that can fail.
TagActions ==
  \/ \E s \in Slots : TagsRun(s)
  \/ TagFindAll(1)
  \/ \E apiFails \in BOOLEAN : TagFindAllReturn(1, apiFails)
NextTags ==
  \/ \E c \in Contents : PostCheck(1, c)
  \/ PostSave(1)
  \/ \E id \in 1..MaxId : DeleteRun(1, id)
  \/ \E k \in FailureKinds : \E pgCode \in PgErrorCodes(k) : StorageFailure(1, k, pgCode)
  \/ Tick
  \/ TagActions
SpecTags == Init /\ [][NextTags]_vars

\* Calls of generateTagUuid alone.
NextIdentity == \E s \in Slots, tagText \in TagTexts : TagUuidCall(s, tagText)
SpecIdentity == Init /\ [][NextIdentity]_vars

\* Round trips through the mappers alone.
NextMappers == \E s \in Slots, record \in MapperRecords : RoundTripCall(s, record)
SpecMappers == Init /\ [][NextMappers]_vars

\* Creates and deletes of one caller with the clock running, and the
\* searches of another.
NextList ==
  \/ \E c \in Contents : PostCheck(1, c)
  \/ PostSave(1)
  \/ \E id \in 1..MaxId : DeleteRun(1, id)
  \/ Tick
  \/ \E q \in Queries : GetCount(2, q)
  \/ GetSelect(2)
SpecList == Init /\ [][NextList]_vars

\* Deletes of one caller; creates, lookups, lists, searches and tag
\* statistics of another.
NextDelete ==
  \/ \E id \in 1..MaxId : DeleteRun(2, id)
  \/ \E c \in Contents : PostCheck(1, c)
  \/ PostSave(1)
  \/ \E id \in FindIds : FindById(1, "postgres", id)
  \/ \E q \in Queries : GetCount(1, q)
  \/ GetSelect(1)
  \/ TagsRun(1)
SpecDelete == Init /\ [][NextDelete]_vars

\* Concurrent findAll calls on one ApiTagRepository, in front of a backend
\* that can fail, with creates and deletes and the clock running.
NextTagCache ==
  \/ \E c \in Contents : PostCheck(1, c)
  \/ PostSave(1)
  \/ \E id \in 1..MaxId : DeleteRun(1, id)
  \/ Tick
  \/ \E k \in Slots : TagFindAll(k)
  \/ \E k \in Slots, apiFails \in BOOLEAN : TagFindAllReturn(k, apiFails)
SpecTagCache == Init /\ [][NextTagCache]_vars

\* Calls of getDatabasePool and closeDatabasePool from concurrent callers.
NextPool ==
  \/ \E s \in Slots : getDatabasePool(s)
  \/ CloseStart
  \/ CloseEnd
SpecPool == Init /\ [][NextPool]_vars

\* saveBatch of ApiRecordRepository against the backend, with creates and
\* deletes of another caller.
NextApiBatch ==
  \/ \E records \in ApiBatches : ApiSaveBatch(records)
  \/ ApiBatchSave
  \/ PostSave(1)
  \/ ApiBatchNext
  \/ \E c \in Contents : PostCheck(2, c)
  \/ PostSave(2)
  \/ \E id \in 1..MaxId : DeleteRun(2, id)
SpecApiBatch == Init /\ [][NextApiBatch]_vars

\* Creates and deletes with the clock running, and findById of either
\* repository.
NextFindById ==
  \/ \E c \in Contents : PostCheck(1, c)
  \/ PostSave(1)
  \/ \E id \in 1..MaxId : DeleteRun(1, id)
  \/ Tick
  \/ \E impl \in Impls, id \in FindIds : FindById(2, impl, id)
SpecFindById == Init /\ [][NextFindById]_vars

\* Creates and deletes of one caller and updates of another, interleaved at
\* every await, with the clock running.
NextUpdate ==
  \/ \E c \in Contents : PostCheck(1, c)
  \/ PostSave(1)
  \/ \E id \in 1..MaxId : DeleteRun(1, id)
  \/ \E id \in 1..MaxId, c \in Contents : PutFind(2, id, c)
  \/ PutCheck(2)
  \/ PutUpdate(2)
  \/ Tick
SpecUpdate == Init /\ [][NextUpdate]_vars

\* Creates of one caller with the clock running, and list calls
\* with limit and offset of all callers.
NextPage ==
  \/ \E c \in Contents : PostCheck(1, c)
  \/ PostSave(1)
  \/ Tick
  \/ \E s \in Slots, limit \in Limits, offset \in Offsets : PageCount(s, limit, offset)
  \/ \E s \in Slots : PageSelect(s)
SpecPage == Init /\ [][NextPage]_vars

\* Creates and deletes of one caller, and the findByTagIds calls of another
\* on either repository.
NextByTagIds ==
  \/ \E c \in Contents : PostCheck(1, c)
  \/ PostSave(1)
  \/ \E id \in 1..MaxId : DeleteRun(1, id)
  \/ \E impl \in Impls, tagIds \in TagIdLists : TagIdsCount(2, impl, tagIds)
  \/ TagIdsSelect(2)
SpecByTagIds == Init /\ [][NextByTagIds]_vars

\* saveBatch calls with failing queries, next to creates and deletes of
\* single records.
NextBatch ==
  \/ BatchActions
  \/ BatchFaultActions
  \/ \E c \in Contents : PostCheck(1, c)
  \/ PostSave(1)
  \/ \E id \in 1..MaxId : DeleteRun(1, id)
SpecBatch == Init /\ [][NextBatch]_vars

\* ---------------------------------------------------------------- properties
IsPost(s) == req[s].op = "post" /\ req[s].pc = "done"
Created(res) == res = Direct(201)
\* The two shapes a duplicate rejection takes: the route's own 409 after the
\* pre-check, and the DomainError of the violated constraint.
IsDuplicateFailure(res) == res = Direct(409) \/ res.code = "DUPLICATE_RECORD"
SameTagSet(x, y) == Range(x) = Range(y)
LiveWithTagSet(tagIds) == { r \in db : TagSetOf(r) = Range(tagIds) }

\* C1: no two live records have exactly the same set of tag identifiers
\* (so at most one live record has the empty set), whatever creates, updates
\* and deletes ran and however they interleaved.
C1_UniqueTagSets ==
  \A r1, r2 \in db : r1.id # r2.id => TagSetOf(r1) # TagSetOf(r2)

\* C2: of two create requests for the same tag set that ran concurrently, with
\* no record of that set stored by anyone else, exactly one succeeded and the
\* other failed with a duplicate failure.
C2_ConcurrentCreatesOneWinner ==
  \A s, t \in Slots :
    ( /\ s # t /\ IsPost(s) /\ IsPost(t)
      /\ t \in req[s].overlap /\ s \in req[t].overlap
      /\ SameTagSet(req[s].tagIds, req[t].tagIds)
      /\ \A r \in LiveWithTagSet(req[s].tagIds) : r.id \in req[s].made \cup req[t].made )
    => \/ Created(req[s].res) /\ IsDuplicateFailure(req[t].res)
       \/ Created(req[t].res) /\ IsDuplicateFailure(req[s].res)

\* C3: a create that ran alone, from tokens whose set an earlier stored record
\* already has in any order, is rejected and stores no second record.
C3_SetOrderIndependence ==
  \A s \in Slots :
    (IsPost(s) /\ req[s].overlap = {} /\ Created(req[s].res))
    => ~ \E r \in LiveWithTagSet(req[s].tagIds) : r.id < req[s].record.id

\* C4: saveBatch is all-or-nothing: when an INSERT of the batch failed the
\* call returned a failure (an Err) and none of the batch's new records is
\* stored; when it returned Ok every record of the batch was stored.
C4_BatchAllOrNothing ==
  batch.pc = "done" =>
    /\ batch.failedAt = "insert" =>
         /\ batch.res \notin {"OK", "THROWN"}
         /\ \A r \in db : r.id \notin batch.fresh
    /\ batch.res = "OK" => batch.allStored

\* C5: saveBatch holds its pooled client exactly while it is between connect
\* and release, and has released it exactly once when it is over, on every
\* exit path; no client stays checked out after the calls have finished.
C5_BatchReleasesClient ==
  /\ poolOut = batch.acquired - batch.released
  /\ batch.released <= 1
  /\ batch.pc \in {"idle", "connect", "done"} => poolOut = 0
  /\ batch.pc \in {"begin", "insert", "commit", "rollback", "release"} => poolOut = 1

\* C5 witness: a call that lost its ROLLBACK has ended with the client back
\* in the pool.
C5_Witness ==
  /\ batch.pc = "done" /\ batch.res = "THROWN" /\ batch.failedAt = "insert"
  /\ batch.released = 1 /\ poolOut = 0

\* C6: a create that is sent again after a storage failure never leaves two
\* live records of its own: the retry creates the record when no attempt has
\* landed, and is rejected as a duplicate when one has.
C6_RetryNeverDoubleCreates ==
  \A s \in Slots :
    req[s].op = "post" =>
      /\ Cardinality({ r \in db : r.id \in req[s].made }) <= 1
      /\ (req[s].pc = "done" /\ req[s].tries >= 2 /\ req[s].res.status # 500) =>
           \/ /\ Created(req[s].res)
              /\ req[s].made = {req[s].record.id}
           \/ /\ IsDuplicateFailure(req[s].res)
              /\ LiveWithTagSet(req[s].tagIds) # {}

\* C6 witness: the first attempt landed although it failed, and the retry
\* has been rejected as its duplicate.
C6_Witness ==
  \E s \in Slots :
    /\ IsPost(s) /\ req[s].tries = 2
    /\ IsDuplicateFailure(req[s].res)
    /\ Cardinality(req[s].made) = 1
    /\ LiveWithTagSet(req[s].tagIds) = { r \in db : r.id \in req[s].made }

\* The normalized tag set of a stored record: its content's tokens, each in
\* normalized form.
NormalizedTagSet(row) == { ToLower(t) : t \in Range(extractTokens(row.content)) }

\* C7: a search with a non-empty query answers with exactly the live records
\* whose normalized tag set contains every normalized query token.
C7_AndSearch ==
  [][ \A s \in Slots :
        ( /\ req[s].op = "get" /\ req[s].pc = "select" /\ req'[s].pc = "done"
          /\ req'[s].res = Direct(200) /\ Len(req[s].content) > 0 )
        => req'[s].hits =
             { r.id : r \in { x \in db :
                 Range(getTokens(req[s].content)) \subseteq NormalizedTagSet(x) } }
    ]_vars

\* C8: for every tag set and every excluded id, findByTagSet returns exactly
\* the live records, other than the excluded one, whose tag set equals the
\* given set: all of them, and none with a strict subset or superset.
C8_FindByTagSetExact ==
  \A c \in PermContents, ex \in 0..MaxId :
    findByTagSet(db, TagIdsOf(c), ex) =
      { r \in LiveWithTagSet(TagIdsOf(c)) : ex # NoId => r.id # ex }

\* The other live records that hold the tag set a PUT asks for.
OthersWithTagSet(s) == { r \in LiveWithTagSet(req[s].tagIds) : r.id # req[s].target }
TargetLive(s) == \E r \in db : r.id = req[s].target
PutEnds(s) ==
  /\ req[s].op = "put" /\ req[s].pc \in {"check", "update"}
  /\ req'[s].pc = "done"

\* C9: an update of a live record to a tag set that no other live record has
\* is never turned down: the step that ends it answers 200 and has replaced
\* the row, whether the set changed or stayed the record's own.
C9_UpdateNoSelfConflict ==
  [][ \A s \in Slots :
        (PutEnds(s) /\ TargetLive(s) /\ OthersWithTagSet(s) = {})
        => /\ req'[s].res = Direct(200)
           /\ \E r \in db' : /\ r.id = req[s].target
                             /\ r.content = req[s].content
                             /\ fromDatabaseRow(r).tagIds = req[s].tagIds
    ]_vars

\* C9 witness: one update has kept its record's own tag set and another has
\* changed its record's tag set, and both were answered 200.
C9_Witness ==
  \E s, t \in Slots :
    /\ req[s].op = "put" /\ req[s].pc = "done" /\ req[s].res = Direct(200)
    /\ SameTagSet(req[s].existing.tagIds, req[s].tagIds)
    /\ req[t].op = "put" /\ req[t].pc = "done" /\ req[t].res = Direct(200)
    /\ ~SameTagSet(req[t].existing.tagIds, req[t].tagIds)

\* C10: an update of a live record to a tag set that another live record has
\* ends as a duplicate failure and changes no stored record, whether the
\* pre-check or the uniqueness constraint detects it.
C10_UpdateConflictRejected ==
  [][ \A s \in Slots :
        (PutEnds(s) /\ TargetLive(s) /\ OthersWithTagSet(s) # {})
        => IsDuplicateFailure(req'[s].res) /\ db' = db
    ]_vars

\* The step in which the repository's update or delete runs for slot s.
RepoWrite(s) ==
  \/ req[s].op = "put" /\ req[s].pc = "update" /\ req'[s].pc = "done"
  \/ Free(s) /\ req'[s].op = "delete" /\ req'[s].pc = "done" /\ req'[s] # req[s]
TargetOf(s) == IF req[s].op = "put" /\ req[s].pc = "update"
               THEN req[s].target ELSE req'[s].target

\* C11: an update or a delete whose id names no live record fails with
\* RecordNotFound (answered 404, which ApiRecordRepository reports as
\* RECORD_NOT_FOUND) and changes no stored record; so a delete of an id
\* already deleted fails in that way.
C11_MissingTargetNotFound ==
  [][ \A s \in Slots :
        (RepoWrite(s) /\ ~ \E r \in db : r.id = TargetOf(s))
        => /\ req'[s].res = Thrown("RECORD_NOT_FOUND")
           /\ req'[s].res.status = 404
           /\ ApiFailure(req'[s].res) = "RECORD_NOT_FOUND"
           /\ db' = db
    ]_vars

\* C11 witness: a delete has succeeded, a second delete of the same id has
\* failed with RecordNotFound, and the record is gone.
C11_Witness ==
  \E s, t \in Slots :
    /\ req[s].op = "delete" /\ req[s].pc = "done" /\ req[s].res = Direct(204)
    /\ req[t].op = "delete" /\ req[t].pc = "done"
    /\ req[t].target = req[s].target
    /\ req[t].res = Thrown("RECORD_NOT_FOUND")
    /\ ~ \E r \in db : r.id = req[s].target

\* C12: every create or update turned down for tag-set duplication is answered
\* with the same HTTP status, whether the pre-check or the uniqueness
\* constraint caught it, and ApiRecordRepository reports DUPLICATE_RECORD for
\* each of them.
C12_DuplicateFailureUniform ==
  \A s, t \in Slots :
    ( /\ req[s].pc = "done" /\ IsDuplicateFailure(req[s].res)
      /\ req[t].pc = "done" /\ IsDuplicateFailure(req[t].res) )
    => /\ req[s].res.status = req[t].res.status
       /\ ApiFailure(req[s].res) = "DUPLICATE_RECORD"

\* The DomainError codes handleError can produce.
StorageErrorCodes ==
  {"DUPLICATE_RECORD", "CONSTRAINT_VIOLATION", "CONNECTION_ERROR", "DATABASE_ERROR"}

\* C13: a saveBatch call that has ended returned Ok or an Err carrying a
\* DomainError of the taxonomy; no failure of a query, of the connection
\* acquisition or of the rollback leaves it as a rejected promise.
C13_NoRawErrorEscapes ==
  batch.pc = "done" => batch.res \in {"OK"} \cup StorageErrorCodes

\* The class the taxonomy assigns to each kind of storage failure.
Taxonomy(k) ==
  CASE k = "tag_set_unique" -> "DUPLICATE_RECORD"
    [] k = "primary_key" -> "CONSTRAINT_VIOLATION"
    [] k \in {"unreachable", "host_not_found", "connect_timeout"} -> "CONNECTION_ERROR"
    [] OTHER -> "DATABASE_ERROR"

\* C14: a request ended by a storage failure carries the DomainError the
\* taxonomy assigns to the failure's kind: DuplicateRecord for a tag-set
\* uniqueness violation only, ConnectionError for an unreachable store or a
\* connection timeout, StorageError for anything else.
C14_FailureClassification ==
  \A s \in Slots :
    (req[s].pc = "done" /\ req[s].cause # "NONE")
    => req[s].res.code = Taxonomy(req[s].cause)

\* C15: no repository operation answers a failed store or backend call with
\* a success: a request whose query failed ends in a typed failure, and an
\* ApiTagRepository call whose backend request failed does not return Ok.
C15_NoSilentFailure ==
  /\ \A s \in Slots : (req[s].pc = "done" /\ req[s].cause # "NONE")
                        => req[s].res.status >= 400
  /\ tagRepo.apiFailed => tagRepo.res # "OK"

\* The normalizer of the tag pipeline: trim, lower-case, strip the accents.
StripAccents(t) == IF t = "a-acute" THEN "a" ELSE t
Normalize(t) == StripAccents(ToLower(Trim(t)))

\* C16: two tag texts get the same identifier exactly when their normalized
\* values (trimmed, lower-cased, accents stripped) are equal.
C16_IdentityIffNormalize ==
  \A s, t \in Slots :
    (req[s].op = "uuid" /\ req[t].op = "uuid")
    => ( req[s].tagIds = req[t].tagIds
         <=> Normalize(req[s].content[1]) = Normalize(req[t].content[1]) )

ExpectedStats(rows) ==
  SortStats({ [tag |-> v, count |-> Cardinality({ r \in rows : v \in NormalizedTagSet(r) })]
              : v \in UNION { NormalizedTagSet(r) : r \in rows } })

\* C18: the tag statistics answered at any moment list exactly the normalized
\* tag values of the live records, each once with the number of live records
\* holding it, ordered by count descending and then by tag ascending.
C18_TagStatistics ==
  [][ \A s \in Slots :
        (req'[s].op = "tags" /\ req'[s] # req[s])
        => req'[s].stats = ExpectedStats(db)
    ]_vars

C20_FindByTagIdsOr ==
  [][ \A s \in Slots :
        (req'[s].op \in Impls /\ req'[s].pc = "done" /\ req'[s] # req[s])
        => req'[s].hits =
             { r.id : r \in { x \in db : TagSetOf(x) \cap Range(req'[s].tagIds) # {} } }
    ]_vars

\* Two finished list calls that ask for adjacent windows of the same size
\* over the same, unchanged table.
AdjacentPages(s, t) ==
  /\ req[s].op = "list" /\ req[s].pc = "done"
  /\ req[t].op = "list" /\ req[t].pc = "done"
  /\ req[s].snap = db /\ req[t].snap = db
  /\ req[s].limit # NoOpt /\ req[t].limit = req[s].limit
  /\ req[s].offset = 0 /\ req[t].offset = req[s].limit

\* C21: two successive windows over an unchanged record set never return the
\* same record twice, and together hold every record up to the end of the
\* second window, also when records share their creation time.
C21_PagingExactlyOnce ==
  \A s, t \in Slots :
    AdjacentPages(s, t) =>
      /\ req[s].hits \cap req[t].hits = {}
      /\ Cardinality(req[s].hits \cup req[t].hits) =
           IF Cardinality(db) < 2 * req[s].limit
           THEN Cardinality(db) ELSE 2 * req[s].limit

\* The slot-s list call returns in this step, and the table did not change
\* between its count and its page query.
ListReturns(s) ==
  /\ req[s].op = "list" /\ req[s].pc = "page" /\ req'[s].pc = "done"
  /\ req[s].snap = db

\* C22: a list call over an unchanged table reports as total the number of
\* all records, returns at most limit records, and reports hasMore exactly
\* when records lie beyond the returned page.
C22_TotalAndHasMore ==
  [][\A s \in Slots :
       ListReturns(s) =>
         LET skipped == IF req[s].offset = NoOpt THEN 0 ELSE req[s].offset
         IN /\ req'[s].total = Cardinality(db)
            /\ req[s].limit # NoOpt => Len(req'[s].page) <= req[s].limit
            /\ req'[s].hasMore <=> skipped + Len(req'[s].page) < Cardinality(db)]_vars

\* C23: every stored row and every record a create or an update built or
\* returned has an update time that is not before its creation time.
C23_UpdatedNotBeforeCreated ==
  /\ \A r \in db : r.updated_at >= r.created_at
  /\ \A r \in db : fromDatabaseRow(r).updatedAt >= fromDatabaseRow(r).createdAt
  /\ \A s \in Slots : req[s].record.updatedAt >= req[s].record.createdAt

\* A record updated at a later clock reading than the one it was created at.
C23_Witness ==
  \E s \in Slots :
    /\ req[s].op = "put" /\ req[s].pc = "done" /\ req[s].res = Direct(200)
    /\ req[s].record.updatedAt > req[s].record.createdAt
    /\ \E r \in db : r.id = req[s].target /\ r.updated_at > r.created_at

\* The slot-s update reaches its UPDATE statement in this step.
UpdateRuns(s) ==
  req[s].op = "put" /\ req[s].pc = "update" /\ req'[s].pc = "done"
\* The slot-s delete runs in this step.
DeleteRuns(s) ==
  Free(s) /\ req'[s].op = "delete" /\ req'[s].pc = "done" /\ req'[s] # req[s]

\* C24: a row that an update step changes is the update's target; it keeps
\* its id and created_at and takes content, tags, normalized_tags and
\* updated_at together from the new record. A row that leaves the table in a
\* delete step is the delete's target. No update or delete step touches,
\* adds or removes any other row.
C24_UpdateFrame ==
  [][ \A s \in Slots :
        /\ UpdateRuns(s) =>
             LET row == toDatabaseRow(req[s].record)
             IN /\ \A r \in db : r.id # req[s].target => r \in db'
                /\ { r.id : r \in db' } = { r.id : r \in db }
                /\ \A r \in db, n \in db' :
                     (r.id = req[s].target /\ n.id = r.id /\ n # r) =>
                       /\ n.created_at = r.created_at
                       /\ n.content = row.content
                       /\ n.tags = row.tags
                       /\ n.normalized_tags = row.normalized_tags
                       /\ n.normalized_tags =
                            [i \in 1..Len(n.tags) |-> ToLower(n.tags[i])]
                       /\ n.updated_at = row.updated_at
        /\ DeleteRuns(s) =>
             /\ db' \subseteq db
             /\ \A r \in db : r.id # req'[s].target => r \in db'
    ]_vars

\* An update was applied while another record was stored.
C24_Witness ==
  \E s \in Slots :
    /\ req[s].op = "put" /\ req[s].pc = "done" /\ req[s].res = Direct(200)
    /\ \E r \in db : /\ r.id = req[s].target
                     /\ r.content = req[s].content
                     /\ r.updated_at > r.created_at
    /\ \E r \in db : r.id # req[s].target

\* Some request changed the table between the slot-s update's lookup and its
\* end, or is in flight with it: the slots other than s hold a write.
OverlapsWrite(s) ==
  \E t \in Slots \ {s} : req[t].op \in {"post", "put", "delete"}

\* C25: an update that ends while other writers' requests interleave with it
\* either answers 200 with the target row replaced, or fails with
\* RecordNotFound or a duplicate failure and changes nothing; the step adds no
\* record id to the table (a deleted record is not recreated) and leaves no
\* two records with one tag set when there were none.
C25_UpdateOneUnit ==
  [][ \A s \in Slots :
        (PutEnds(s) /\ OverlapsWrite(s)) =>
          /\ \/ /\ req'[s].res = Direct(200)
                /\ \E n \in db' : /\ n.id = req[s].target
                                  /\ n.content = req[s].content
                                  /\ TagSetOf(n) = Range(req[s].tagIds)
             \/ /\ \/ req'[s].res = Thrown("RECORD_NOT_FOUND")
                   \/ IsDuplicateFailure(req'[s].res)
                /\ db' = db
          /\ { r.id : r \in db' } \subseteq { r.id : r \in db }
          /\ (\A r1, r2 \in db : r1.id # r2.id => TagSetOf(r1) # TagSetOf(r2))
               => (\A r1, r2 \in db' : r1.id # r2.id => TagSetOf(r1) # TagSetOf(r2))
    ]_vars

\* The slot-s delete of a record has succeeded and stands during this step.
Deleted(s) ==
  /\ req[s].op = "delete" /\ req[s].pc = "done" /\ req[s].res = Direct(204)
  /\ req'[s] = req[s]
\* Slot t takes a new request of kind op in this step.
Starts(t, op) == Free(t) /\ req'[t].op = op /\ req'[t] # req[t]

\* C26: after a delete of record X has succeeded, a lookup of X finds nothing,
\* no list or search page holds X, the tag statistics count only records
\* still stored, and a create with X's tag set by X's creator passes the
\* duplicate check and is stored, no other record having that set.
C26_DeletedIsGone ==
  [][ \A s, t \in Slots :
        Deleted(s) =>
          LET X == req[s].target
          IN /\ ~ \E r \in db : r.id = X
             /\ (Starts(t, "find") /\ req'[t].target = X)
                  => req'[t].res = Direct(200) /\ req'[t].hits = {}
             /\ (req[t].op = "get" /\ req[t].pc = "select" /\ req'[t].pc = "done")
                  => X \notin req'[t].hits
             /\ Starts(t, "tags")
                  => \A i \in 1..Len(req'[t].stats) :
                       req'[t].stats[i].count =
                         Cardinality({ r \in db : req'[t].stats[i].tag
                                                    \in Range(r.normalized_tags) })
             /\ ( /\ req[t].op = "post" /\ req[t].res = Direct(201)
                  /\ req[t].record.id = X
                  /\ Starts(t, "post")
                  /\ SameTagSet(req'[t].tagIds, req[t].tagIds)
                  /\ LiveWithTagSet(req[t].tagIds) = {} )
                  => req'[t].pc = "save"
             /\ ( /\ req[t].op = "post" /\ req[t].pc = "save" /\ req'[t].pc = "done"
                  /\ LiveWithTagSet(req[t].tagIds) = {} )
                  => /\ req'[t].res = Direct(201)
                     /\ \E r \in db' : r.id = req[t].record.id
    ]_vars

\* A record was created and deleted, and a lookup of its id then found
\* nothing.
C26_Witness ==
  \E s, t \in Slots :
    /\ req[s].op = "delete" /\ req[s].pc = "done" /\ req[s].res = Direct(204)
    /\ req[t].op = "find" /\ req[t].pc = "done"
    /\ req[t].target = req[s].target /\ req[t].hits = {}

\* C27: a getDatabasePool call returns the pool the variable already holds,
\* creating none, whenever one is held, and never returns a pool whose end()
\* has been called.
C27_SharedPoolNeverEnded ==
  [][ \A s \in Slots :
        Starts(s, "pool") =>
          /\ pool.ref # NoPool =>
               (req'[s].target = pool.ref /\ pool'.made = pool.made)
          /\ req'[s].target \notin pool'.ended
    ]_vars

\* C28: a saveBatch of ApiRecordRepository that returns Err leaves none of
\* the records it saved before the failure in the table.
C28_ApiBatchAllOrNothing ==
  [][ ( /\ apiBatch.pc = "await" /\ apiBatch'.pc = "done"
        /\ apiBatch'.res # "OK" )
      => \A id \in apiBatch.savedRecords : ~ \E r \in db' : r.id = id
    ]_vars

\* Caller k's findAll gets the answer of its GET /tags in this step.
RefreshReturns(k) ==
  tagRepo.calls[k].pc = "await" /\ tagRepo'.calls[k].pc = "idle"

\* C29: a refresh is applied only when no successful refresh lies less than
\* CACHE_TTL back; a failed refresh leaves both caches and the start of the
\* TTL as they were; a successful one leaves the caches holding exactly the
\* backend's tags and counts.
C29_CacheRefresh ==
  [][ \A k \in Slots :
        RefreshReturns(k) =>
          IF tagRepo'.apiFailed
          THEN /\ tagRepo'.tagCache = tagRepo.tagCache
               /\ tagRepo'.usageCache = tagRepo.usageCache
               /\ tagRepo'.lastCacheUpdate = tagRepo.lastCacheUpdate
               /\ tagRepo'.loaded = tagRepo.loaded
          ELSE /\ ~tagRepo.loaded \/ now - tagRepo.lastCacheUpdate >= CacheTtl
               /\ LET statistics == getTagStatistics(db)
                  IN /\ tagRepo'.tagCache =
                          { statistics[i].tag : i \in 1..Len(statistics) }
                     /\ tagRepo'.usageCache =
                          { statistics[i] : i \in 1..Len(statistics) }
    ]_vars

\* C30: findById(id) of either repository answers Ok with the live record
\* whose id is id, and Ok(null) when no live record has that id; it never
\* answers with a record of another id.
C30_FindByIdExact ==
  [][ \A s \in Slots :
        Starts(s, "find") =>
          /\ req'[s].res = Direct(200)
          /\ req'[s].hits = { r.id : r \in { x \in db : x.id = req'[s].target } }
          /\ req'[s].hits # {} => req'[s].record.id = req'[s].target
    ]_vars

====
